---- MODULE Spec2Model ----
(***************************************************************************)
(* A model of Chess.py: the precomputed move tables, check detection, move *)
(* validation, castling, move execution and the main loop.                 *)
(*                                                                         *)
(* A square is <<r, c>> with r, c in 0..7 (row 0 is black's back rank).    *)
(* A board is a function board[r][c] giving one of the characters the      *)
(* program stores: "." or one of PNBRQK (white) / pnbrqk (black).          *)
(***************************************************************************)
EXTENDS Integers, Sequences, FiniteSets, TLC

VARIABLES
    board,              \* main(): the authoritative board
    turn_white,         \* main(): TRUE when White is to move
    en_passant_target,  \* main(): None or the square a pawn may capture onto
    castling_rights,    \* main(): colour -> [0] kingside, [1] queenside
    pc,                 \* "awaiting" at the prompt, "exited" after 'quit';
                        \* "calling" / "returned" around a direct call
    output,             \* the messages printed since the last move text was read
    moved,              \* <<start, end>> of the last accepted move, or None
    ply,                \* accepted moves since the model's initial state
    texts,              \* move texts handled since the model's initial state
    call,               \* a direct call of one of the functions: its arguments
    ret,                \* ... and what it returned
    prompted,           \* what promotion_choice returned, call by call, since
                        \* the last move text was read (or during a direct call)
    stack               \* the active calls of is_valid_move and in_check,
                        \* outermost first, while a call is followed step by step

vars == <<board, turn_white, en_passant_target, castling_rights,
          pc, output, moved, ply, texts, call, ret, prompted, stack>>

\* Python's None for a square (en_passant_target, find_king_position).
None == <<>>

\* Python's None for a colour (get_piece_color of an empty square).
NoColor == "None"

Rows == 0..7

Squares == {<<r, c>> : r \in Rows, c \in Rows}

WhitePieces == {"P", "N", "B", "R", "Q", "K"}

BlackPieces == {"p", "n", "b", "r", "q", "k"}

Abs(x) == IF x < 0 THEN -x ELSE x

InSeq(x, s) == \E i \in 1..Len(s) : s[i] = x

-----------------------------------------------------------------------------
(* Precomputed tables                                                      *)

in_bounds(r, c) == 0 <= r /\ r < 8 /\ 0 <= c /\ c < 8

\* KnightOffsets changed: the last offset is missing.
KnightOffsets_one_missing ==
    << <<-2, -1>>, <<-2, 1>>, <<-1, -2>>, <<-1, 2>>,
       <<1, -2>>, <<1, 2>>, <<2, -1>> >>

KnightOffsets ==
    << <<-2, -1>>, <<-2, 1>>, <<-1, -2>>, <<-1, 2>>,
       <<1, -2>>, <<1, 2>>, <<2, -1>>, <<2, 1>> >>

KingOffsets ==
    << <<-1, -1>>, <<-1, 0>>, <<-1, 1>>,
       <<0, -1>>,             <<0, 1>>,
       <<1, -1>>,  <<1, 0>>,  <<1, 1>> >>

\* The in-bounds squares s + offsets[i], in the order of the offsets.
LeaperMoves(s, offsets) ==
    SelectSeq([i \in 1..Len(offsets) |->
                  <<s[1] + offsets[i][1], s[2] + offsets[i][2]>>],
              LAMBDA t : in_bounds(t[1], t[2]))

KNIGHT_MOVES == [s \in Squares |-> LeaperMoves(s, KnightOffsets)]

KING_MOVES == [s \in Squares |-> LeaperMoves(s, KingOffsets)]

\* The squares from (rr, cc) on in direction (dr, dc), up to the board edge.
RECURSIVE Ray(_, _, _, _)
Ray(rr, cc, dr, dc) ==
    IF in_bounds(rr, cc)
    THEN << <<rr, cc>> >> \o Ray(rr + dr, cc + dc, dr, dc)
    ELSE << >>

RookDirs == << <<1, 0>>, <<-1, 0>>, <<0, 1>>, <<0, -1>> >>

BishopDirs == << <<1, 1>>, <<1, -1>>, <<-1, 1>>, <<-1, -1>> >>

Slides(s, dirs) ==
    [i \in 1..Len(dirs) |->
        Ray(s[1] + dirs[i][1], s[2] + dirs[i][2], dirs[i][1], dirs[i][2])]

ROOK_SLIDES == [s \in Squares |-> Slides(s, RookDirs)]

BISHOP_SLIDES == [s \in Squares |-> Slides(s, BishopDirs)]

-----------------------------------------------------------------------------
(* Board setup and utilities                                               *)

\* A board from its eight rows, each a tuple of eight characters.
MkBoard(rows) == [r \in Rows |-> [c \in Rows |-> rows[r + 1][c + 1]]]

STARTING_BOARD ==
    MkBoard(<< <<"r", "n", "b", "q", "k", "b", "n", "r">>,
               <<"p", "p", "p", "p", "p", "p", "p", "p">>,
               <<".", ".", ".", ".", ".", ".", ".", ".">>,
               <<".", ".", ".", ".", ".", ".", ".", ".">>,
               <<".", ".", ".", ".", ".", ".", ".", ".">>,
               <<".", ".", ".", ".", ".", ".", ".", ".">>,
               <<"P", "P", "P", "P", "P", "P", "P", "P">>,
               <<"R", "N", "B", "Q", "K", "B", "N", "R">> >>)

\* Rights per colour, indexed as in the program: [0] kingside, [1] queenside.
CASTLE_RIGHTS ==
    [white |-> [i \in 0..1 |-> TRUE], black |-> [i \in 0..1 |-> TRUE]]

is_white(piece) == piece \in WhitePieces

is_black(piece) == piece \in BlackPieces

get_piece_color(piece) ==
    IF piece = "." THEN NoColor
    ELSE IF is_white(piece) THEN "white" ELSE "black"

\* str.upper() on a piece character.
upper(piece) ==
    CASE piece \in {"P", "p"} -> "P"
      [] piece \in {"N", "n"} -> "N"
      [] piece \in {"B", "b"} -> "B"
      [] piece \in {"R", "r"} -> "R"
      [] piece \in {"Q", "q"} -> "Q"
      [] piece \in {"K", "k"} -> "K"
      [] OTHER -> piece

\* str.lower() on a piece character.
lower(piece) ==
    CASE piece \in {"P", "p"} -> "p"
      [] piece \in {"N", "n"} -> "n"
      [] piece \in {"B", "b"} -> "b"
      [] piece \in {"R", "r"} -> "r"
      [] piece \in {"Q", "q"} -> "q"
      [] piece \in {"K", "k"} -> "k"
      [] OTHER -> piece

-----------------------------------------------------------------------------
(* Check detection and move validation                                     *)

\* The first square, in row-major order, holding the colour's king.
find_king_position(b, color) ==
    LET king_char == IF color = "white" THEN "K" ELSE "k"
        found == {s \in Squares : b[s[1]][s[2]] = king_char}
    IN  IF found = {} THEN None
        ELSE CHOOSE s \in found :
                 \A t \in found : s[1] < t[1] \/ (s[1] = t[1] /\ s[2] <= t[2])

\* valid_pawn_move changed: the double step does not look at the square the
\* pawn passes over.
valid_pawn_move_jumps(b, start, end, tw, ep) ==
    LET r1 == start[1]
        c1 == start[2]
        r2 == end[1]
        c2 == end[2]
        direction == IF tw THEN -1 ELSE 1
        start_row == IF tw THEN 6 ELSE 1
        enemy_color == IF tw THEN "black" ELSE "white"
    IN  \/ c1 = c2 /\ r2 = r1 + direction /\ b[r2][c2] = "."
        \/ /\ c1 = c2 /\ r1 = start_row /\ r2 = r1 + 2 * direction
           /\ b[r2][c2] = "."
        \/ /\ Abs(c2 - c1) = 1 /\ r2 = r1 + direction
           /\ \/ b[r2][c2] # "." /\ get_piece_color(b[r2][c2]) = enemy_color
              \/ ep # None /\ end = ep /\ b[r2][c2] = "."

valid_pawn_move(b, start, end, tw, ep) ==
    LET r1 == start[1]
        c1 == start[2]
        r2 == end[1]
        c2 == end[2]
        direction == IF tw THEN -1 ELSE 1
        start_row == IF tw THEN 6 ELSE 1
        enemy_color == IF tw THEN "black" ELSE "white"
    IN  \/ c1 = c2 /\ r2 = r1 + direction /\ b[r2][c2] = "."
        \/ /\ c1 = c2 /\ r1 = start_row /\ r2 = r1 + 2 * direction
           /\ b[r1 + direction][c1] = "." /\ b[r2][c2] = "."
        \/ /\ Abs(c2 - c1) = 1 /\ r2 = r1 + direction
           /\ \/ b[r2][c2] # "." /\ get_piece_color(b[r2][c2]) = enemy_color
              \/ ep # None /\ end = ep /\ b[r2][c2] = "."

\* slide_ok changed: the blocking test comes before the test for end, so that
\* end itself must be empty.
slide_ok_end_tested_late(b, rays, end) ==
    \E i \in 1..Len(rays) :
        /\ InSeq(end, rays[i])
        /\ \A j \in 1..(i - 1) : ~InSeq(end, rays[j])
        /\ \E k \in 1..Len(rays[i]) :
              /\ rays[i][k] = end
              /\ \A j \in 1..k : b[rays[i][j][1]][rays[i][j][2]] = "."

\* Scanning one of the rays: the first ray containing end decides; on it every
\* square met before end must be empty.
slide_ok(b, rays, end) ==
    \E i \in 1..Len(rays) :
        /\ InSeq(end, rays[i])
        /\ \A j \in 1..(i - 1) : ~InSeq(end, rays[j])
        /\ \E k \in 1..Len(rays[i]) :
              /\ rays[i][k] = end
              /\ \A j \in 1..(k - 1) : b[rays[i][j][1]][rays[i][j][2]] = "."

valid_rook_move(b, start, end) == slide_ok(b, ROOK_SLIDES[start], end)

valid_bishop_move(b, start, end) == slide_ok(b, BISHOP_SLIDES[start], end)

valid_queen_move(b, start, end) ==
    IF valid_rook_move(b, start, end) THEN TRUE
    ELSE IF valid_bishop_move(b, start, end) THEN TRUE
    ELSE FALSE

\* The piece-geometry branch of is_valid_move.
piece_geometry(b, start, end, tw, ep) ==
    LET p == upper(b[start[1]][start[2]])
    IN  CASE p = "P" -> valid_pawn_move(b, start, end, tw, ep)
          [] p = "N" -> InSeq(end, KNIGHT_MOVES[start])
          [] p = "B" -> valid_bishop_move(b, start, end)
          [] p = "R" -> valid_rook_move(b, start, end)
          [] p = "Q" -> valid_queen_move(b, start, end)
          [] p = "K" -> InSeq(end, KING_MOVES[start])
          [] OTHER -> FALSE

\* The scratch board is_valid_move builds to test the mover's king.
simulated_board(b, start, end, ep) ==
    LET r1 == start[1]
        c1 == start[2]
        r2 == end[1]
        c2 == end[2]
        piece == b[r1][c1]
        t1 == [b EXCEPT ![r1][c1] = "."]
        t2 == IF upper(piece) = "P" /\ ep # None /\ end = ep /\ c1 # c2
                 /\ t1[r2][c2] = "."
              THEN [t1 EXCEPT ![r1][c2] = "."]
              ELSE t1
    IN  [t2 EXCEPT ![r2][c2] = piece]

RECURSIVE is_valid_move(_, _, _, _, _, _)

\* in_check changed: the colour comparison is inverted, so that it looks at
\* the pieces of the king's own colour.
in_check_own_pieces(b, color) ==
    LET king_pos == find_king_position(b, color)
    IN  IF king_pos = None THEN FALSE
        ELSE \E r \in Rows, c \in Rows :
                /\ b[r][c] # "."
                /\ get_piece_color(b[r][c]) = color
                /\ is_valid_move(b, <<r, c>>, king_pos,
                                 get_piece_color(b[r][c]) = "white", None, FALSE)

\* in_check changed: a missing king counts as being in check.
in_check_kingless_is_check(b, color) ==
    LET king_pos == find_king_position(b, color)
    IN  IF king_pos = None THEN TRUE
        ELSE \E r \in Rows, c \in Rows :
                /\ b[r][c] # "."
                /\ get_piece_color(b[r][c]) # color
                /\ is_valid_move(b, <<r, c>>, king_pos,
                                 get_piece_color(b[r][c]) = "white", None, FALSE)

in_check(b, color) ==
    LET king_pos == find_king_position(b, color)
    IN  IF king_pos = None THEN FALSE
        ELSE \E r \in Rows, c \in Rows :
                /\ b[r][c] # "."
                /\ get_piece_color(b[r][c]) # color
                /\ is_valid_move(b, <<r, c>>, king_pos,
                                 get_piece_color(b[r][c]) = "white", None, FALSE)

\* is_valid_move changed: it returns after the geometry tests also when
\* checking_check is true, so that the mover's own king is never looked at.
is_valid_move_no_safety(b, start, end, tw, ep, checking_check) ==
    IF ~in_bounds(start[1], start[2]) \/ ~in_bounds(end[1], end[2]) THEN FALSE
    ELSE LET piece == b[start[1]][start[2]]
             piece_color == IF is_white(piece) THEN "white" ELSE "black"
             target == b[end[1]][end[2]]
         IN  IF piece = "." THEN FALSE
             ELSE IF tw /\ piece_color # "white" THEN FALSE
             ELSE IF ~tw /\ piece_color # "black" THEN FALSE
             ELSE IF target # "." /\ get_piece_color(target) = piece_color
                  THEN FALSE
             ELSE IF ~piece_geometry(b, start, end, tw, ep) THEN FALSE
             ELSE TRUE

\* is_valid_move changed: the test for a target of the mover's own colour is
\* missing.
is_valid_move_takes_own(b, start, end, tw, ep, checking_check) ==
    IF ~in_bounds(start[1], start[2]) \/ ~in_bounds(end[1], end[2]) THEN FALSE
    ELSE LET piece == b[start[1]][start[2]]
             piece_color == IF is_white(piece) THEN "white" ELSE "black"
         IN  IF piece = "." THEN FALSE
             ELSE IF tw /\ piece_color # "white" THEN FALSE
             ELSE IF ~tw /\ piece_color # "black" THEN FALSE
             ELSE IF ~piece_geometry(b, start, end, tw, ep) THEN FALSE
             ELSE IF ~checking_check THEN TRUE
             ELSE ~in_check(simulated_board(b, start, end, ep), piece_color)

is_valid_move(b, start, end, tw, ep, checking_check) ==
    IF ~in_bounds(start[1], start[2]) \/ ~in_bounds(end[1], end[2]) THEN FALSE
    ELSE LET piece == b[start[1]][start[2]]
             piece_color == IF is_white(piece) THEN "white" ELSE "black"
             target == b[end[1]][end[2]]
         IN  IF piece = "." THEN FALSE
             ELSE IF tw /\ piece_color # "white" THEN FALSE
             ELSE IF ~tw /\ piece_color # "black" THEN FALSE
             ELSE IF target # "." /\ get_piece_color(target) = piece_color
                  THEN FALSE
             ELSE IF ~piece_geometry(b, start, end, tw, ep) THEN FALSE
             ELSE IF ~checking_check THEN TRUE
             ELSE ~in_check(simulated_board(b, start, end, ep), piece_color)

-----------------------------------------------------------------------------
(* Castling and promotion                                                  *)

\* can_castle changed: on the queenside only d and c are tested for emptiness,
\* not b.
can_castle_b_file_ignored(b, color, side, rights) ==
    LET row == IF color = "white" THEN 7 ELSE 0
        king_char == IF color = "white" THEN "K" ELSE "k"
    IN  IF side = "king"
        THEN IF ~rights[0] THEN FALSE
             ELSE IF b[row][4] # king_char THEN FALSE
             ELSE IF b[row][5] # "." \/ b[row][6] # "." THEN FALSE
             ELSE IF ~(b[row][7] \in {"R", "r"}
                       /\ get_piece_color(b[row][7]) = color) THEN FALSE
             ELSE LET temp1 == [b EXCEPT ![row][4] = ".", ![row][5] = king_char]
                      temp2 == [temp1 EXCEPT ![row][5] = ".", ![row][6] = king_char]
                  IN  IF in_check(temp1, color) THEN FALSE
                      ELSE IF in_check(temp2, color) THEN FALSE
                      ELSE TRUE
        ELSE IF ~rights[1] THEN FALSE
             ELSE IF b[row][4] # king_char THEN FALSE
             ELSE IF b[row][3] # "." \/ b[row][2] # "." THEN FALSE
             ELSE IF ~(b[row][0] \in {"R", "r"}
                       /\ get_piece_color(b[row][0]) = color) THEN FALSE
             ELSE LET temp1 == [b EXCEPT ![row][4] = ".", ![row][3] = king_char]
                      temp2 == [temp1 EXCEPT ![row][3] = ".", ![row][2] = king_char]
                  IN  IF in_check(temp1, color) THEN FALSE
                      ELSE IF in_check(temp2, color) THEN FALSE
                      ELSE TRUE

can_castle(b, color, side, rights) ==
    LET row == IF color = "white" THEN 7 ELSE 0
        king_char == IF color = "white" THEN "K" ELSE "k"
    IN  IF side = "king"
        THEN IF ~rights[0] THEN FALSE
             ELSE IF b[row][4] # king_char THEN FALSE
             ELSE IF b[row][5] # "." \/ b[row][6] # "." THEN FALSE
             ELSE IF ~(b[row][7] \in {"R", "r"}
                       /\ get_piece_color(b[row][7]) = color) THEN FALSE
             ELSE LET temp1 == [b EXCEPT ![row][4] = ".", ![row][5] = king_char]
                      temp2 == [temp1 EXCEPT ![row][5] = ".", ![row][6] = king_char]
                  IN  IF in_check(temp1, color) THEN FALSE
                      ELSE IF in_check(temp2, color) THEN FALSE
                      ELSE TRUE
        ELSE IF ~rights[1] THEN FALSE
             ELSE IF b[row][4] # king_char THEN FALSE
             ELSE IF b[row][3] # "." \/ b[row][2] # "." \/ b[row][1] # "."
                  THEN FALSE
             ELSE IF ~(b[row][0] \in {"R", "r"}
                       /\ get_piece_color(b[row][0]) = color) THEN FALSE
             ELSE LET temp1 == [b EXCEPT ![row][4] = ".", ![row][3] = king_char]
                      temp2 == [temp1 EXCEPT ![row][3] = ".", ![row][2] = king_char]
                  IN  IF in_check(temp1, color) THEN FALSE
                      ELSE IF in_check(temp2, color) THEN FALSE
                      ELSE TRUE

\* do_castle changed: the rook is copied next to the king but its corner is
\* not cleared.
do_castle_corner_kept(b, color, side) ==
    LET row == IF color = "white" THEN 7 ELSE 0
        king_char == IF color = "white" THEN "K" ELSE "k"
    IN  IF side = "king"
        THEN [b EXCEPT ![row][4] = ".", ![row][6] = king_char,
                       ![row][5] = b[row][7]]
        ELSE [b EXCEPT ![row][4] = ".", ![row][2] = king_char,
                       ![row][3] = b[row][0]]

do_castle(b, color, side) ==
    LET row == IF color = "white" THEN 7 ELSE 0
        king_char == IF color = "white" THEN "K" ELSE "k"
    IN  IF side = "king"
        THEN [b EXCEPT ![row][4] = ".", ![row][6] = king_char,
                       ![row][5] = b[row][7], ![row][7] = "."]
        ELSE [b EXCEPT ![row][4] = ".", ![row][2] = king_char,
                       ![row][3] = b[row][0], ![row][0] = "."]

\* The letters promotion_choice accepts from the prompt (after upper()).
PromotionChoices == {"Q", "R", "B", "N"}

\* promotion_choice with the accepted answer given as choice.
promotion_choice(color, choice) ==
    IF color = "white" THEN choice ELSE lower(choice)

-----------------------------------------------------------------------------
(* Move execution                                                          *)

\* normal_move changed: the pawn passed by an en-passant capture stays.
normal_move_keeps_pawn(b, start, end, ep) ==
    [b EXCEPT ![start[1]][start[2]] = ".",
              ![end[1]][end[2]] = b[start[1]][start[2]]]

\* The normal (non-castling) move on the board, with the en-passant removal.
normal_move(b, start, end, ep) ==
    LET r1 == start[1]
        c1 == start[2]
        r2 == end[1]
        c2 == end[2]
        piece == b[r1][c1]
        b1 == [b EXCEPT ![r1][c1] = "."]
        b2 == IF upper(piece) = "P" /\ ep # None /\ end = ep /\ c1 # c2
                 /\ b1[r2][c2] = "."
              THEN [b1 EXCEPT ![r1][c2] = "."]
              ELSE b1
    IN  [b2 EXCEPT ![r2][c2] = piece]

\* new_en_passant changed: the two-row test is made for every piece.
new_en_passant_any_piece(p, start, end) ==
    IF Abs(end[1] - start[1]) = 2
    THEN <<(start[1] + end[1]) \div 2, start[2]>>
    ELSE None

\* new_en_passant changed: the target is the square the pawn arrives on.
new_en_passant_at_end(p, start, end) ==
    IF p = "P" /\ Abs(end[1] - start[1]) = 2
    THEN <<end[1], start[2]>>
    ELSE None

\* The en-passant target a normal move of piece type p leaves behind.
new_en_passant(p, start, end) ==
    IF p = "P" /\ Abs(end[1] - start[1]) = 2
    THEN <<(start[1] + end[1]) \div 2, start[2]>>
    ELSE None

\* Pawn promotion on the square the pawn arrived at.
promote(b, p, color, end, choice) ==
    IF p = "P" /\ color = "white" /\ end[1] = 0
    THEN [b EXCEPT ![end[1]][end[2]] = promotion_choice(color, choice)]
    ELSE IF p = "P" /\ color = "black" /\ end[1] = 7
    THEN [b EXCEPT ![end[1]][end[2]] = promotion_choice(color, choice)]
    ELSE b

\* revoke_rights changed: a rook leaving the h-file corner rebuilds the pair
\* as [False, True] instead of clearing index 0.
revoke_rights_rebuilt(cr, p, color, start) ==
    IF p = "K" THEN [cr EXCEPT ![color] = [i \in 0..1 |-> FALSE]]
    ELSE IF p = "R"
    THEN IF color = "white"
         THEN IF start = <<7, 0>> THEN [cr EXCEPT ![color][1] = FALSE]
              ELSE IF start = <<7, 7>>
                   THEN [cr EXCEPT ![color] = [i \in 0..1 |-> i = 1]]
              ELSE cr
         ELSE IF start = <<0, 0>> THEN [cr EXCEPT ![color][1] = FALSE]
              ELSE IF start = <<0, 7>>
                   THEN [cr EXCEPT ![color] = [i \in 0..1 |-> i = 1]]
              ELSE cr
    ELSE cr

\* revoke_rights changed: the two indices are swapped.
revoke_rights_swapped(cr, p, color, start) ==
    IF p = "K" THEN [cr EXCEPT ![color] = [i \in 0..1 |-> FALSE]]
    ELSE IF p = "R"
    THEN IF color = "white"
         THEN IF start = <<7, 0>> THEN [cr EXCEPT ![color][0] = FALSE]
              ELSE IF start = <<7, 7>> THEN [cr EXCEPT ![color][1] = FALSE]
              ELSE cr
         ELSE IF start = <<0, 0>> THEN [cr EXCEPT ![color][0] = FALSE]
              ELSE IF start = <<0, 7>> THEN [cr EXCEPT ![color][1] = FALSE]
              ELSE cr
    ELSE cr

\* Castling rights after a normal move of a piece of type p from start.
revoke_rights(cr, p, color, start) ==
    IF p = "K" THEN [cr EXCEPT ![color] = [i \in 0..1 |-> FALSE]]
    ELSE IF p = "R"
    THEN IF color = "white"
         THEN IF start = <<7, 0>> THEN [cr EXCEPT ![color][1] = FALSE]
              ELSE IF start = <<7, 7>> THEN [cr EXCEPT ![color][0] = FALSE]
              ELSE cr
         ELSE IF start = <<0, 0>> THEN [cr EXCEPT ![color][1] = FALSE]
              ELSE IF start = <<0, 7>> THEN [cr EXCEPT ![color][0] = FALSE]
              ELSE cr
    ELSE cr

\* The move makes move_with_extras call promotion_choice.
promotes(p, color, end) ==
    p = "P" /\ ((color = "white" /\ end[1] = 0) \/ (color = "black" /\ end[1] = 7))

\* move_with_extras: the board it leaves, the pair it returns, and what its
\* calls of promotion_choice returned.  choice is the answer promotion_choice
\* gets if the move promotes.
move_with_extras(b, start, end, tw, ep, cr, choice) ==
    LET piece == b[start[1]][start[2]]
        p == upper(piece)
        color == IF is_white(piece) THEN "white" ELSE "black"
        row == IF color = "white" THEN 7 ELSE 0
        castled(side) ==
            [board |-> do_castle(b, color, side),
             en_passant |-> None,
             rights |-> [cr EXCEPT ![color] = [i \in 0..1 |-> FALSE]],
             asked |-> << >>]
    IN  IF p = "K" /\ start = <<row, 4>> /\ end = <<row, 6>>
           /\ can_castle(b, color, "king", cr[color])
        THEN castled("king")
        ELSE IF p = "K" /\ start = <<row, 4>> /\ end = <<row, 2>>
                /\ can_castle(b, color, "queen", cr[color])
        THEN castled("queen")
        ELSE [board |-> promote(normal_move(b, start, end, ep), p, color, end, choice),
              en_passant |-> new_en_passant(p, start, end),
              rights |-> revoke_rights(cr, p, color, start),
              asked |-> IF promotes(p, color, end)
                        THEN <<promotion_choice(color, choice)>> ELSE << >>]

-----------------------------------------------------------------------------
(* Main loop                                                               *)

\* Move text is modelled as <<file, digit, file, digit>>, e.g. <<"e", 2, "e", 4>>
\* for "e2 e4"; any text parse_move cannot split and convert is Malformed.
Malformed == << >>

\* ord(ch) - ord('a') for the file letters the inputs use.
FileOffset ==
    [a |-> 0, b |-> 1, c |-> 2, d |-> 3, e |-> 4, f |-> 5, g |-> 6, h |-> 7,
     i |-> 8]

\* parse_move: <<start, end>>, or <<None, None>> for text it cannot convert.
parse_move(move) ==
    IF Len(move) # 4 THEN <<None, None>>
    ELSE << <<8 - move[2], FileOffset[move[1]]>>,
            <<8 - move[4], FileOffset[move[3]]>> >>

MsgFormat == "Invalid input format. Try again."

MsgIllegal == "Illegal move. Try again."

MsgSelfCheck == "Illegal: that would leave your king in check."

MsgGoodbye == "Goodbye."

\* The line the loop prints before its prompt when the side to move is in check.
check_report(b, tw) ==
    IF in_check(b, IF tw THEN "white" ELSE "black")
    THEN << (IF tw THEN "White" ELSE "Black") \o " is in check!" >>
    ELSE << >>

\* The game state main() keeps in its locals.
GameState(b, tw, ep, cr) ==
    [board |-> b, turn_white |-> tw, en_passant_target |-> ep,
     castling_rights |-> cr]

\* main_iteration changed: the en-passant target is reset when a move is
\* refused by is_valid_move.
main_iteration_resets_target(g, move, choice1, choice2) ==
    LET parsed == parse_move(move)
        start == parsed[1]
        end == parsed[2]
        b == g.board
        tw == g.turn_white
        ep == g.en_passant_target
        cr == g.castling_rights
        player_color == IF tw THEN "white" ELSE "black"
    IN  IF start = None \/ end = None
        THEN [state |-> g, printed |-> <<MsgFormat>>, asked |-> << >>]
        ELSE IF is_valid_move(b, start, end, tw, ep, TRUE)
        THEN LET temp == move_with_extras(b, start, end, tw, ep, cr, choice1)
             IN  IF in_check(temp.board, player_color)
                 THEN [state |-> g, printed |-> <<MsgSelfCheck>>,
                       asked |-> temp.asked]
                 ELSE LET real == move_with_extras(b, start, end, tw, ep, cr,
                                                   choice2)
                      IN  [state |-> GameState(real.board, ~tw, real.en_passant,
                                               real.rights),
                           printed |-> << >>,
                           asked |-> temp.asked \o real.asked]
        ELSE [state |-> GameState(b, tw, None, cr), printed |-> <<MsgIllegal>>,
              asked |-> << >>]

\* main_iteration changed: the side to move flips after the if, also when the
\* move was refused by is_valid_move.
main_iteration_flips_always(g, move, choice1, choice2) ==
    LET parsed == parse_move(move)
        start == parsed[1]
        end == parsed[2]
        b == g.board
        tw == g.turn_white
        ep == g.en_passant_target
        cr == g.castling_rights
        player_color == IF tw THEN "white" ELSE "black"
    IN  IF start = None \/ end = None
        THEN [state |-> g, printed |-> <<MsgFormat>>, asked |-> << >>]
        ELSE IF is_valid_move(b, start, end, tw, ep, TRUE)
        THEN LET temp == move_with_extras(b, start, end, tw, ep, cr, choice1)
             IN  IF in_check(temp.board, player_color)
                 THEN [state |-> g, printed |-> <<MsgSelfCheck>>,
                       asked |-> temp.asked]
                 ELSE LET real == move_with_extras(b, start, end, tw, ep, cr,
                                                   choice2)
                      IN  [state |-> GameState(real.board, ~tw, real.en_passant,
                                               real.rights),
                           printed |-> << >>,
                           asked |-> temp.asked \o real.asked]
        ELSE [state |-> GameState(b, ~tw, ep, cr), printed |-> <<MsgIllegal>>,
              asked |-> << >>]

\* main_iteration changed: the scratch copy that passed the test is committed
\* instead of moving again on the authoritative board.
main_iteration_commits_scratch(g, move, choice1, choice2) ==
    LET parsed == parse_move(move)
        start == parsed[1]
        end == parsed[2]
        b == g.board
        tw == g.turn_white
        ep == g.en_passant_target
        cr == g.castling_rights
        player_color == IF tw THEN "white" ELSE "black"
    IN  IF start = None \/ end = None
        THEN [state |-> g, printed |-> <<MsgFormat>>, asked |-> << >>]
        ELSE IF is_valid_move(b, start, end, tw, ep, TRUE)
        THEN LET temp == move_with_extras(b, start, end, tw, ep, cr, choice1)
             IN  IF in_check(temp.board, player_color)
                 THEN [state |-> g, printed |-> <<MsgSelfCheck>>,
                       asked |-> temp.asked]
                 ELSE [state |-> GameState(temp.board, ~tw, temp.en_passant,
                                           temp.rights),
                       printed |-> << >>,
                       asked |-> temp.asked]
        ELSE [state |-> g, printed |-> <<MsgIllegal>>, asked |-> << >>]

\* One iteration of main()'s loop on a move text other than 'quit': the state
\* it leaves and what it printed.  choice1 and choice2 answer the promotion
\* prompt of the scratch call and of the real call of move_with_extras.
main_iteration(g, move, choice1, choice2) ==
    LET parsed == parse_move(move)
        start == parsed[1]
        end == parsed[2]
        b == g.board
        tw == g.turn_white
        ep == g.en_passant_target
        cr == g.castling_rights
        player_color == IF tw THEN "white" ELSE "black"
    IN  IF start = None \/ end = None
        THEN [state |-> g, printed |-> <<MsgFormat>>, asked |-> << >>]
        ELSE IF is_valid_move(b, start, end, tw, ep, TRUE)
        THEN LET temp == move_with_extras(b, start, end, tw, ep, cr, choice1)
             IN  IF in_check(temp.board, player_color)
                 THEN [state |-> g, printed |-> <<MsgSelfCheck>>,
                       asked |-> temp.asked]
                 ELSE LET real == move_with_extras(b, start, end, tw, ep, cr,
                                                   choice2)
                      IN  [state |-> GameState(real.board, ~tw, real.en_passant,
                                               real.rights),
                           printed |-> << >>,
                           asked |-> temp.asked \o real.asked]
        ELSE [state |-> g, printed |-> <<MsgIllegal>>, asked |-> << >>]

\* The state of main() before its loop.
StartState == GameState(STARTING_BOARD, TRUE, None, CASTLE_RIGHTS)

\* The state main() is in after the given move texts, each of which it accepts.
RECURSIVE After(_)
After(moves) ==
    IF moves = << >> THEN StartState
    ELSE main_iteration(After(SubSeq(moves, 1, Len(moves) - 1)),
                        moves[Len(moves)], "Q", "Q").state

-----------------------------------------------------------------------------
(* The game: main() from the initial arrangement                           *)

\* Openings main() accepts move by move; the model starts a game at the
\* initial arrangement or after one of them.

\* The en-passant target is e3.
LineOpen ==
    << <<"e", 2, "e", 4>> >>

\* Black's pawn has just passed the white pawn on e5: the target is d6.
LineEnPassant ==
    << <<"e", 2, "e", 4>>, <<"a", 7, "a", 6>>, <<"e", 4, "e", 5>>,
       <<"d", 7, "d", 5>> >>

\* As above, but the pawn on e5 shields the king on e1 from the queen on e7.
LineEpPinned ==
    << <<"e", 2, "e", 4>>, <<"e", 7, "e", 6>>, <<"e", 4, "e", 5>>,
       <<"d", 8, "e", 7>>, <<"g", 1, "f", 3>>, <<"a", 7, "a", 6>>,
       <<"f", 3, "h", 4>>, <<"b", 7, "b", 6>>, <<"h", 4, "f", 5>>,
       <<"e", 6, "f", 5>>, <<"a", 2, "a", 3>>, <<"d", 7, "d", 5>> >>

\* f1 and g1 are empty, king and rook unmoved, e1, f1, g1 not attacked.
LineCastle ==
    << <<"e", 2, "e", 4>>, <<"e", 7, "e", 5>>, <<"g", 1, "f", 3>>,
       <<"b", 8, "c", 6>>, <<"f", 1, "c", 4>>, <<"f", 8, "c", 5>> >>

\* The bishop on b4 gives check to the king on e1.
LineCheck ==
    << <<"e", 2, "e", 4>>, <<"e", 7, "e", 5>>, <<"g", 1, "f", 3>>,
       <<"b", 8, "c", 6>>, <<"f", 1, "c", 4>>, <<"f", 8, "c", 5>>,
       <<"d", 2, "d", 3>>, <<"c", 5, "b", 4>> >>

\* The bishop on b4 pins the knight on c3 to the king on e1.
LinePin ==
    << <<"d", 2, "d", 4>>, <<"e", 7, "e", 6>>, <<"b", 1, "c", 3>>,
       <<"f", 8, "b", 4>> >>

\* Kings and all four rooks can move.
LineRooks ==
    << <<"a", 2, "a", 4>>, <<"h", 7, "h", 5>>, <<"h", 2, "h", 4>>,
       <<"a", 7, "a", 5>>, <<"e", 2, "e", 4>>, <<"e", 7, "e", 5>> >>

\* As above with Black to move.
LineRooksBlack ==
    << <<"a", 2, "a", 4>>, <<"h", 7, "h", 5>>, <<"h", 2, "h", 4>>,
       <<"a", 7, "a", 5>>, <<"e", 2, "e", 4>>, <<"e", 7, "e", 5>>,
       <<"b", 1, "c", 3>> >>

\* White has lost the queenside right, Black the kingside right.
LineRookMoved ==
    << <<"a", 2, "a", 4>>, <<"h", 7, "h", 5>>, <<"h", 2, "h", 4>>,
       <<"a", 7, "a", 5>>, <<"a", 1, "a", 2>>, <<"h", 8, "h", 7>> >>

\* The bishop on b2 can capture the rook on h8.
LineCorner ==
    << <<"b", 2, "b", 3>>, <<"g", 7, "g", 6>>, <<"c", 1, "b", 2>>,
       <<"a", 7, "a", 6>> >>

\* Pawns on h7 and a2 can capture onto the last rank.
LinePromote ==
    << <<"h", 2, "h", 4>>, <<"a", 7, "a", 5>>, <<"b", 2, "b", 4>>,
       <<"g", 7, "g", 5>>, <<"h", 4, "g", 5>>, <<"a", 5, "b", 4>>,
       <<"g", 5, "g", 6>>, <<"b", 4, "b", 3>>, <<"g", 6, "h", 7>>,
       <<"b", 3, "a", 2>> >>

\* White is in check and has no move that ends it.
LineMate ==
    << <<"f", 2, "f", 3>>, <<"e", 7, "e", 5>>, <<"g", 2, "g", 4>>,
       <<"d", 8, "h", 4>> >>

\* Both kings are back home with every right lost.
LineKingsBack ==
    << <<"e", 2, "e", 4>>, <<"e", 7, "e", 5>>, <<"e", 1, "e", 2>>,
       <<"e", 8, "e", 7>>, <<"e", 2, "e", 1>>, <<"e", 7, "e", 8>> >>

Lines ==
    {<< >>, LineOpen, LineEnPassant, LineEpPinned, LineCastle, LineCheck,
     LinePin, LineRooks, LineRooksBlack, LineRookMoved, LineCorner, LinePromote, LineMate,
     LineKingsBack}

\* Accepted moves modelled per game after its opening.
MaxPly == 1

\* Move texts, accepted or refused, modelled per game after its opening.
MaxTexts == 1

\* The square texts tried as input: every square of the board and three texts
\* parse_move converts to coordinates off the board.
InputSquareTexts ==
    {<<f, d>> : f \in {"a", "b", "c", "d", "e", "f", "g", "h"}, d \in 1..8}
        \cup {<<"i", 1>>, <<"a", 9>>, <<"e", 0>>}

MoveTexts == {s \o e : s \in InputSquareTexts, e \in InputSquareTexts}

\* No promotion prompt was answered.
NoAnswer == "-"

\* The answers the promotion prompt can get during a call of move_with_extras
\* on this input: it prompts only when a pawn arrives on its last rank.
PromptAnswers(b, start, end) ==
    IF in_bounds(start[1], start[2]) /\ in_bounds(end[1], end[2])
       /\ ((b[start[1]][start[2]] = "P" /\ end[1] = 0)
           \/ (b[start[1]][start[2]] = "p" /\ end[1] = 7))
    THEN PromotionChoices
    ELSE {NoAnswer}

Game == GameState(board, turn_white, en_passant_target, castling_rights)

Init ==
    /\ \E line \in Lines :
          /\ board = After(line).board
          /\ turn_white = After(line).turn_white
          /\ en_passant_target = After(line).en_passant_target
          /\ castling_rights = After(line).castling_rights
          /\ output = check_report(After(line).board, After(line).turn_white)
          /\ moved = IF line = << >> THEN None ELSE parse_move(line[Len(line)])
    /\ pc = "awaiting"
    /\ ply = 0
    /\ texts = 0
    /\ call = << >>
    /\ ret = << >>
    /\ prompted = << >>
    /\ stack = << >>

\* The loop reads a move text other than 'quit', handles it and comes back to
\* its prompt.
Move ==
    /\ pc = "awaiting"
    /\ ply < MaxPly
    /\ texts < MaxTexts
    /\ \E report \in {check_report(board, turn_white)} :
       \E move \in MoveTexts \cup {Malformed} :
       \E parsed \in {parse_move(move)} :
       \E answers \in {IF parsed[1] = None THEN {NoAnswer}
                       ELSE PromptAnswers(board, parsed[1], parsed[2])} :
       \E choice1 \in answers, choice2 \in answers :
       \E res \in {main_iteration(Game, move, choice1, choice2)} :
       \E accepted \in {res.printed = << >>} :
          /\ board' = res.state.board
          /\ turn_white' = res.state.turn_white
          /\ en_passant_target' = res.state.en_passant_target
          /\ castling_rights' = res.state.castling_rights
          /\ output' = IF accepted
                       THEN check_report(res.state.board, res.state.turn_white)
                       ELSE res.printed \o report
          /\ moved' = IF accepted THEN parsed ELSE moved
          /\ ply' = IF accepted THEN ply + 1 ELSE ply
          /\ texts' = texts + 1
          /\ prompted' = res.asked
    /\ UNCHANGED <<pc, call, ret, stack>>

\* The loop reads 'quit'.
Quit ==
    /\ pc = "awaiting"
    /\ pc' = "exited"
    /\ output' = <<MsgGoodbye>>
    /\ prompted' = << >>
    /\ UNCHANGED <<board, turn_white, en_passant_target, castling_rights,
                   moved, ply, texts, call, ret, stack>>

Next == Move \/ Quit

Spec == Init /\ [][Next]_vars

-----------------------------------------------------------------------------
(* Direct calls of can_castle on constructed boards                        *)

\* Kings and rooks on their home squares, nothing else.
CastleBase ==
    MkBoard(<< <<"r", ".", ".", ".", "k", ".", ".", "r">>,
               <<".", ".", ".", ".", ".", ".", ".", ".">>,
               <<".", ".", ".", ".", ".", ".", ".", ".">>,
               <<".", ".", ".", ".", ".", ".", ".", ".">>,
               <<".", ".", ".", ".", ".", ".", ".", ".">>,
               <<".", ".", ".", ".", ".", ".", ".", ".">>,
               <<".", ".", ".", ".", ".", ".", ".", ".">>,
               <<"R", ".", ".", ".", "K", ".", ".", "R">> >>)

\* CastleBase with one square overwritten: a piece added, or a king or rook
\* replaced or removed.
CastleBoards ==
    {[CastleBase EXCEPT ![s[1]][s[2]] = x] :
        s \in Squares, x \in WhitePieces \cup BlackPieces \cup {"."}}

RightsValues == [0..1 -> BOOLEAN]

InitCastle ==
    /\ board \in CastleBoards
    /\ turn_white = TRUE
    /\ en_passant_target = None
    /\ castling_rights = CASTLE_RIGHTS
    /\ pc = "calling"
    /\ output = << >>
    /\ moved = None
    /\ ply = 0
    /\ texts = 0
    /\ call = << >>
    /\ ret = << >>
    /\ prompted = << >>
    /\ stack = << >>

\* can_castle(board, color, side, rights) is called and returns.
CallCanCastle ==
    /\ pc = "calling"
    /\ \E color \in {"white", "black"}, side \in {"king", "queen"},
          rights \in RightsValues :
          /\ call' = <<"can_castle", color, side, rights>>
          /\ ret' = can_castle(board, color, side, rights)
    /\ pc' = "returned"
    /\ UNCHANGED <<board, turn_white, en_passant_target, castling_rights,
                   output, moved, ply, texts, prompted, stack>>

\* The rights dictionaries main() can hold.
RightsDicts == [{"white", "black"} -> RightsValues]

\* The en-passant targets passed in direct calls: none, or d6.
CallTargets == {None, <<2, 3>>}

\* move_with_extras(board, start, end, turn_white, en_passant_target, rights)
\* is called for the piece on e1 or e8 and a destination on the same row; it
\* changes the board and the rights in place and returns the new target and
\* the rights.
CallMoveWithExtras ==
    /\ pc = "calling"
    /\ \E start \in {<<7, 4>>, <<0, 4>>}, c2 \in Rows, cr \in RightsDicts,
          ep \in CallTargets :
       \E end \in {<<start[1], c2>>} :
       \E choice \in PromptAnswers(board, start, end) :
       \E tw \in {is_white(board[start[1]][start[2]])} :
       \E res \in {move_with_extras(board, start, end, tw, ep, cr, choice)} :
          /\ board[start[1]][start[2]] # "."
          /\ call' = <<"move_with_extras", board, start, end, tw, ep, cr>>
          /\ board' = res.board
          /\ castling_rights' = res.rights
          /\ ret' = <<res.en_passant, res.rights>>
          /\ prompted' = res.asked
    /\ pc' = "returned"
    /\ UNCHANGED <<turn_white, en_passant_target, output, moved, ply, texts,
                   stack>>

NextCastle == CallCanCastle \/ CallMoveWithExtras

SpecCastle == InitCastle /\ [][NextCastle]_vars

-----------------------------------------------------------------------------
(* Direct calls of in_check on boards with and without kings               *)

\* The boards after the openings; CheckBoards has each as it is, with every
\* one of its squares in turn emptied (which removes, among others, either
\* king), and with either king replaced by another piece.
OpeningBoards == {After(line).board : line \in Lines}

\* b with the king of the colour replaced by x.
KingReplaced(b, color, x) ==
    LET k == find_king_position(b, color)
    IN  [b EXCEPT ![k[1]][k[2]] = x]

CheckBoards ==
    OpeningBoards
    \cup {[b EXCEPT ![s[1]][s[2]] = "."] : b \in OpeningBoards, s \in Squares}
    \cup {KingReplaced(b, color, x) :
             b \in OpeningBoards, color \in {"white", "black"},
             x \in {"Q", "q", "N", "n", "P", "p"}}

InitInCheck ==
    /\ board \in CheckBoards
    /\ turn_white = TRUE
    /\ en_passant_target = None
    /\ castling_rights = CASTLE_RIGHTS
    /\ pc = "calling"
    /\ output = << >>
    /\ moved = None
    /\ ply = 0
    /\ texts = 0
    /\ call = << >>
    /\ ret = << >>
    /\ prompted = << >>
    /\ stack = << >>

\* in_check(board, color) is called and returns.
CallInCheck ==
    /\ pc = "calling"
    /\ \E color \in {"white", "black"} :
          /\ call' = <<"in_check", color>>
          /\ ret' = in_check(board, color)
    /\ pc' = "returned"
    /\ UNCHANGED <<board, turn_white, en_passant_target, castling_rights,
                   output, moved, ply, texts, prompted, stack>>

NextInCheck == CallInCheck

SpecInCheck == InitInCheck /\ [][NextInCheck]_vars

-----------------------------------------------------------------------------
(* Direct calls of is_valid_move (geometry only) for sliding pieces        *)

\* Where the sliding piece stands: corners, edges and inner squares.
SliderSquares == {<<r, c>> : r \in {0, 3, 7}, c \in {0, 4, 7}}

Sliders == {"R", "B", "Q", "r", "b", "q"}

EmptyBoard == [r \in Rows |-> [c \in Rows |-> "."]]

\* One sliding piece, alone or with one more piece (white or black) anywhere.
SlideBoards ==
    {[EmptyBoard EXCEPT ![s[1]][s[2]] = x] :
        s \in SliderSquares, x \in Sliders}
    \cup
    {[[EmptyBoard EXCEPT ![t[1]][t[2]] = y] EXCEPT ![s[1]][s[2]] = x] :
        s \in SliderSquares, x \in Sliders, t \in Squares, y \in {"N", "p"}}

InitSlide ==
    /\ board \in SlideBoards
    /\ turn_white = TRUE
    /\ en_passant_target = None
    /\ castling_rights = CASTLE_RIGHTS
    /\ pc = "calling"
    /\ output = << >>
    /\ moved = None
    /\ ply = 0
    /\ texts = 0
    /\ call = << >>
    /\ ret = << >>
    /\ prompted = << >>
    /\ stack = << >>

\* is_valid_move(board, start, end, turn_white, None, checking_check=False) is
\* called for a sliding piece on start, with its own colour to move.
CallIsValidMove ==
    /\ pc = "calling"
    /\ \E start \in SliderSquares, end \in Squares :
          /\ board[start[1]][start[2]] \in Sliders
          /\ call' = <<"is_valid_move", start, end>>
          /\ ret' = is_valid_move(board, start, end,
                                  is_white(board[start[1]][start[2]]),
                                  None, FALSE)
    /\ pc' = "returned"
    /\ UNCHANGED <<board, turn_white, en_passant_target, castling_rights,
                   output, moved, ply, texts, prompted, stack>>

NextSlide == CallIsValidMove

SpecSlide == InitSlide /\ [][NextSlide]_vars

-----------------------------------------------------------------------------
(* Direct calls of is_valid_move (geometry only) for pawns                 *)

\* Where the pawn stands: an edge file and an inner file, every row a pawn
\* can be on.
PawnSquares == {<<r, c>> : r \in 1..6, c \in {0, 3}}

\* One pawn, alone or with one more piece (white or black) anywhere.
PawnBoards ==
    {[EmptyBoard EXCEPT ![s[1]][s[2]] = x] :
        s \in PawnSquares, x \in {"P", "p"}}
    \cup
    {[[EmptyBoard EXCEPT ![t[1]][t[2]] = y] EXCEPT ![s[1]][s[2]] = x] :
        s \in PawnSquares, x \in {"P", "p"}, t \in Squares, y \in {"N", "n"}}

\* The en-passant targets passed: none, or a square of row 2 or 5 beside the
\* pawn's file.
PawnTargets == {None, <<2, 1>>, <<5, 1>>, <<2, 4>>, <<5, 4>>}

InitPawn ==
    /\ board \in PawnBoards
    /\ turn_white = TRUE
    /\ en_passant_target = None
    /\ castling_rights = CASTLE_RIGHTS
    /\ pc = "calling"
    /\ output = << >>
    /\ moved = None
    /\ ply = 0
    /\ texts = 0
    /\ call = << >>
    /\ ret = << >>
    /\ prompted = << >>
    /\ stack = << >>

\* is_valid_move(board, start, end, turn_white, en_passant_target,
\* checking_check=False) is called for a pawn on start, with its own colour to
\* move.
CallPawnMove ==
    /\ pc = "calling"
    /\ \E start \in PawnSquares, end \in Squares, ep \in PawnTargets :
          /\ board[start[1]][start[2]] \in {"P", "p"}
          /\ call' = <<"is_valid_move", start, end, ep>>
          /\ ret' = is_valid_move(board, start, end,
                                  is_white(board[start[1]][start[2]]),
                                  ep, FALSE)
    /\ pc' = "returned"
    /\ UNCHANGED <<board, turn_white, en_passant_target, castling_rights,
                   output, moved, ply, texts, prompted, stack>>

NextPawn == CallPawnMove

SpecPawn == InitPawn /\ [][NextPawn]_vars

-----------------------------------------------------------------------------
(* Look-ups in the precomputed knight and king tables                      *)

InitTables ==
    /\ board = STARTING_BOARD
    /\ turn_white = TRUE
    /\ en_passant_target = None
    /\ castling_rights = CASTLE_RIGHTS
    /\ pc = "calling"
    /\ output = << >>
    /\ moved = None
    /\ ply = 0
    /\ texts = 0
    /\ call = << >>
    /\ ret = << >>
    /\ prompted = << >>
    /\ stack = << >>

\* KNIGHT_MOVES[s] is read.
LookupKnight ==
    /\ pc = "calling"
    /\ \E s \in Squares :
          /\ call' = <<"KNIGHT_MOVES", s>>
          /\ ret' = KNIGHT_MOVES[s]
    /\ pc' = "returned"
    /\ UNCHANGED <<board, turn_white, en_passant_target, castling_rights,
                   output, moved, ply, texts, prompted, stack>>

\* KING_MOVES[s] is read.
LookupKing ==
    /\ pc = "calling"
    /\ \E s \in Squares :
          /\ call' = <<"KING_MOVES", s>>
          /\ ret' = KING_MOVES[s]
    /\ pc' = "returned"
    /\ UNCHANGED <<board, turn_white, en_passant_target, castling_rights,
                   output, moved, ply, texts, prompted, stack>>

NextTables == LookupKnight \/ LookupKing

SpecTables == InitTables /\ [][NextTables]_vars

-----------------------------------------------------------------------------
(* is_valid_move and in_check followed call by call                        *)

\* InCheckPassesFlag changed: in_check leaves the argument out, so that
\* is_valid_move runs with its default, checking_check=True.
InCheckPassesFlag_default == TRUE

\* The checking_check argument in_check passes to is_valid_move.
InCheckPassesFlag == FALSE

\* An active call of is_valid_move: at "entry" before its body has run, at
\* "waiting" while the in_check it called is running.
IsValidMoveFrame(b, start, end, tw, ep, checking_check) ==
    [fn |-> "is_valid_move", b |-> b,
     args |-> <<start, end, tw, ep, checking_check>>, next |-> 0, at |-> "entry"]

\* An active call of in_check: next is the square (8 * r + c) its loops look
\* at next; at "waiting" while the is_valid_move it called is running.
InCheckFrame(b, color) ==
    [fn |-> "in_check", b |-> b, args |-> <<color>>, next |-> 0, at |-> "entry"]

Top == stack[Len(stack)]

\* The running call returns v to its caller; ret holds it as <<v>>.
Return(v) ==
    /\ stack' = SubSeq(stack, 1, Len(stack) - 1)
    /\ ret' = <<v>>
    /\ pc' = IF Len(stack) = 1 THEN "returned" ELSE pc

\* The running call calls f and waits for it.
Call(f) ==
    /\ stack' = [stack EXCEPT ![Len(stack)].at = "waiting"] \o <<f>>
    /\ UNCHANGED <<ret, pc>>

\* main() calls is_valid_move with check-safety for a candidate move, or
\* in_check for a colour, in the state after one of the openings.
InitCalls ==
    /\ \E line \in Lines :
          /\ board = After(line).board
          /\ turn_white = After(line).turn_white
          /\ en_passant_target = After(line).en_passant_target
          /\ castling_rights = After(line).castling_rights
    /\ \/ \E start \in Squares, end \in Squares :
             /\ call = <<"is_valid_move", start, end>>
             /\ stack = <<IsValidMoveFrame(board, start, end, turn_white,
                                           en_passant_target, TRUE)>>
       \/ \E color \in {"white", "black"} :
             /\ call = <<"in_check", color>>
             /\ stack = <<InCheckFrame(board, color)>>
    /\ pc = "calling"
    /\ output = << >>
    /\ moved = None
    /\ ply = 0
    /\ texts = 0
    /\ ret = << >>
    /\ prompted = << >>

\* is_valid_move runs from its entry: it returns False or True from its
\* geometry tests, or builds the scratch board and calls in_check.
EnterIsValidMove ==
    /\ pc = "calling" /\ stack # << >>
    /\ Top.fn = "is_valid_move" /\ Top.at = "entry"
    /\ LET b == Top.b
           start == Top.args[1]
           end == Top.args[2]
           tw == Top.args[3]
           ep == Top.args[4]
           checking_check == Top.args[5]
           piece_color == IF is_white(b[start[1]][start[2]]) THEN "white"
                          ELSE "black"
       IN  IF ~is_valid_move(b, start, end, tw, ep, FALSE) THEN Return(FALSE)
           ELSE IF ~checking_check THEN Return(TRUE)
           ELSE Call(InCheckFrame(simulated_board(b, start, end, ep),
                                  piece_color))
    /\ UNCHANGED <<board, turn_white, en_passant_target, castling_rights,
                   output, moved, ply, texts, call, prompted>>

\* is_valid_move gets the result of in_check and returns its negation.
ResumeIsValidMove ==
    /\ pc = "calling" /\ stack # << >>
    /\ Top.fn = "is_valid_move" /\ Top.at = "waiting"
    /\ Return(~ret[1])
    /\ UNCHANGED <<board, turn_white, en_passant_target, castling_rights,
                   output, moved, ply, texts, call, prompted>>

\* in_check runs: it returns False without a king or when its loops are
\* through, or calls is_valid_move for the next enemy piece.
ScanInCheck ==
    /\ pc = "calling" /\ stack # << >>
    /\ Top.fn = "in_check" /\ Top.at = "entry"
    /\ LET b == Top.b
           color == Top.args[1]
           king_pos == find_king_position(b, color)
           enemies == {i \in Top.next..63 :
                          /\ b[i \div 8][i % 8] # "."
                          /\ get_piece_color(b[i \div 8][i % 8]) # color}
       IN  IF king_pos = None THEN Return(FALSE)
           ELSE IF enemies = {} THEN Return(FALSE)
           ELSE LET i == CHOOSE j \in enemies : \A k \in enemies : j <= k
                    piece == b[i \div 8][i % 8]
                IN  /\ stack' =
                          [stack EXCEPT ![Len(stack)].at = "waiting",
                                        ![Len(stack)].next = i + 1]
                          \o <<IsValidMoveFrame(b, <<i \div 8, i % 8>>, king_pos,
                                                get_piece_color(piece) = "white",
                                                None, InCheckPassesFlag)>>
                    /\ UNCHANGED <<ret, pc>>
    /\ UNCHANGED <<board, turn_white, en_passant_target, castling_rights,
                   output, moved, ply, texts, call, prompted>>

\* in_check gets the result of is_valid_move: it returns True, or goes on
\* with its loops.
ResumeInCheck ==
    /\ pc = "calling" /\ stack # << >>
    /\ Top.fn = "in_check" /\ Top.at = "waiting"
    /\ IF ret[1] THEN Return(TRUE)
       ELSE /\ stack' = [stack EXCEPT ![Len(stack)].at = "entry"]
            /\ UNCHANGED <<ret, pc>>
    /\ UNCHANGED <<board, turn_white, en_passant_target, castling_rights,
                   output, moved, ply, texts, call, prompted>>

NextCalls ==
    EnterIsValidMove \/ ResumeIsValidMove \/ ScanInCheck \/ ResumeInCheck

SpecCalls == InitCalls /\ [][NextCalls]_vars /\ WF_vars(NextCalls)

-----------------------------------------------------------------------------
(* The rules of chess the properties are stated with, written independently *)
(* of the program's tables and validators                                   *)

Sign(x) == IF x > 0 THEN 1 ELSE IF x < 0 THEN -1 ELSE 0

Max(x, y) == IF x > y THEN x ELSE y

ColorOf(x) ==
    IF x \in WhitePieces THEN "white"
    ELSE IF x \in BlackPieces THEN "black" ELSE "nobody"

Other(color) == IF color = "white" THEN "black" ELSE "white"

KingOf(color) == IF color = "white" THEN "K" ELSE "k"

PawnOf(color) == IF color = "white" THEN "P" ELSE "p"

ToMove == IF turn_white THEN "white" ELSE "black"

\* s and e lie on one row, column or diagonal.
OnRow(s, e) == s # e /\ (s[1] = e[1] \/ s[2] = e[2])

OnDiagonal(s, e) == s # e /\ Abs(e[1] - s[1]) = Abs(e[2] - s[2])

\* The squares strictly between two squares of one row, column or diagonal.
Between(s, e) ==
    {<<s[1] + k * Sign(e[1] - s[1]), s[2] + k * Sign(e[2] - s[2])>> :
        k \in 1..(Max(Abs(e[1] - s[1]), Abs(e[2] - s[2])) - 1)}

ClearBetween(b, s, e) == \A m \in Between(s, e) : b[m[1]][m[2]] = "."

\* The piece on s attacks the square t.
Attacks(b, s, t) ==
    LET x == b[s[1]][s[2]]
        dr == t[1] - s[1]
        dc == t[2] - s[2]
    IN  CASE x = "P" -> dr = -1 /\ Abs(dc) = 1
          [] x = "p" -> dr = 1 /\ Abs(dc) = 1
          [] x \in {"N", "n"} -> {Abs(dr), Abs(dc)} = {1, 2}
          [] x \in {"K", "k"} -> s # t /\ Abs(dr) <= 1 /\ Abs(dc) <= 1
          [] x \in {"R", "r"} -> OnRow(s, t) /\ ClearBetween(b, s, t)
          [] x \in {"B", "b"} -> OnDiagonal(s, t) /\ ClearBetween(b, s, t)
          [] x \in {"Q", "q"} ->
                (OnRow(s, t) \/ OnDiagonal(s, t)) /\ ClearBetween(b, s, t)
          [] OTHER -> FALSE

SquareAttacked(b, t, by) ==
    \E s \in Squares : ColorOf(b[s[1]][s[2]]) = by /\ Attacks(b, s, t)

KingAttacked(b, color) ==
    \E k \in Squares :
        b[k[1]][k[2]] = KingOf(color) /\ SquareAttacked(b, k, Other(color))

\* The move text of a move between two squares of the board.
FileName == <<"a", "b", "c", "d", "e", "f", "g", "h">>

TextOf(start, end) ==
    <<FileName[start[2] + 1], 8 - start[1], FileName[end[2] + 1], 8 - end[1]>>

\* The last handled move text was refused.
Rejected(out) ==
    Len(out) > 0 /\ out[1] \in {MsgFormat, MsgIllegal, MsgSelfCheck}

-----------------------------------------------------------------------------
(* Properties                                                              *)

\* C1: after every move the main loop accepts, the king of the side that moved
\* is not attacked on the authoritative board (by the rules of chess, and
\* according to in_check).
C1_MoverKingSafe ==
    (pc \in {"awaiting", "exited"} /\ moved # None) =>
        /\ ~KingAttacked(board, Other(ToMove))
        /\ ~in_check(board, Other(ToMove))

\* White has stepped out of the bishop's check with e1-f1 and was accepted.
C1_Witness ==
    /\ ply = 1 /\ moved = << <<7, 4>>, <<7, 5>> >>
    /\ board[7][5] = "K" /\ board[4][1] = "b" /\ board[6][3] = "."
    /\ ~turn_white

\* C2: a refused move text (malformed, refused by is_valid_move, or refused by
\* the scratch-copy test) leaves board, rights, en-passant target and side to
\* move as they were.
C2_RejectionKeepsState ==
    [][Rejected(output') =>
          UNCHANGED <<board, turn_white, en_passant_target, castling_rights>>]_vars

\* A move was refused while an en-passant target was set.
C2_Witness ==
    /\ pc = "awaiting" /\ Rejected(output) /\ output[1] = MsgIllegal
    /\ en_passant_target # None

\* C3: with the white king on e1, rook on h1, f1 and g1 empty, the kingside
\* right intact and e1, f1, g1 not attacked, the main loop accepts "e1 g1" and
\* castles.
C3_CastlePrecondition ==
    /\ pc = "awaiting" /\ turn_white
    /\ board[7][4] = "K" /\ board[7][7] = "R"
    /\ board[7][5] = "." /\ board[7][6] = "."
    /\ castling_rights["white"][0]
    /\ \A c \in 4..6 : ~SquareAttacked(board, <<7, c>>, "black")

C3_MainLoopCastles ==
    C3_CastlePrecondition =>
        LET res == main_iteration(Game, <<"e", 1, "g", 1>>, NoAnswer, NoAnswer)
        IN  /\ res.printed = << >>
            /\ res.state.board[7][6] = "K" /\ res.state.board[7][5] = "R"
            /\ res.state.board[7][4] = "." /\ res.state.board[7][7] = "."
            /\ ~res.state.castling_rights["white"][0]
            /\ ~res.state.castling_rights["white"][1]
            /\ ~res.state.turn_white

\* C4: can_castle returns false whenever the colour's king stands on its home
\* square and is attacked there.
C4_NoCastlingOutOfCheck ==
    (pc = "returned" /\ call[1] = "can_castle") =>
        LET color == call[2]
            home == <<IF color = "white" THEN 7 ELSE 0, 4>>
        IN  (board[home[1]][home[2]] = KingOf(color)
             /\ SquareAttacked(board, home, Other(color))) => ret = FALSE

\* C5: the en-passant target is the square passed over when the last accepted
\* move was a two-square pawn advance and None otherwise; a target therefore
\* always belongs to the move just made by the side that is not to move.
C5_ExpectedTarget ==
    IF moved = None THEN None
    ELSE LET s == moved[1]
             e == moved[2]
         IN  IF board[e[1]][e[2]] \in {"P", "p"} /\ Abs(e[1] - s[1]) = 2
             THEN <<(s[1] + e[1]) \div 2, s[2]>>
             ELSE None

C5_TargetLastsOnePly ==
    (pc \in {"awaiting", "exited"}) =>
        /\ en_passant_target = C5_ExpectedTarget
        /\ en_passant_target # None =>
              \/ en_passant_target[1] = 5 /\ ~turn_white
              \/ en_passant_target[1] = 2 /\ turn_white

\* After "e2 e4" set e3, "e7 e5" has replaced it with e6.
C5_Witness ==
    /\ ply = 1 /\ moved = << <<1, 4>>, <<3, 4>> >>
    /\ board[4][4] = "P" /\ board[3][4] = "p"
    /\ en_passant_target = <<2, 4>>

\* C6: a castling right that is false stays false, whatever is played or
\* refused afterwards.
C6_RightsNeverRestored ==
    [][\A color \in {"white", "black"}, i \in 0..1 :
          ~castling_rights[color][i] => ~castling_rights'[color][i]]_vars

\* White, the queenside right already lost, has moved the rook from h1: both
\* white rights are now false.
C6_Witness ==
    /\ ply = 1 /\ moved[1] = <<7, 7>>
    /\ board[moved[2][1]][moved[2][2]] = "R" /\ board[6][0] = "R"
    /\ ~castling_rights["white"][0] /\ ~castling_rights["white"][1]

\* C7: an accepted move changes the rights exactly so: a king move clears both
\* rights of the mover, a rook move from the mover's a-file (h-file) home
\* corner clears the mover's queenside (kingside) right only, any other move
\* changes nothing; the opponent's rights never change.
C7_RightsAfter(cr, b, start, mover) ==
    LET p == b[start[1]][start[2]]
        home == IF mover = "white" THEN 7 ELSE 0
    IN  IF p = KingOf(mover) THEN [i \in 0..1 |-> FALSE]
        ELSE IF p \in {"R", "r"} /\ start = <<home, 0>>
        THEN [i \in 0..1 |-> IF i = 1 THEN FALSE ELSE cr[mover][i]]
        ELSE IF p \in {"R", "r"} /\ start = <<home, 7>>
        THEN [i \in 0..1 |-> IF i = 0 THEN FALSE ELSE cr[mover][i]]
        ELSE cr[mover]

C7_RightsChangeExactly ==
    [][turn_white' # turn_white =>
          /\ castling_rights'[Other(ToMove)] = castling_rights[Other(ToMove)]
          /\ castling_rights'[ToMove] =
                C7_RightsAfter(castling_rights, board, moved'[1], ToMove)]_vars

\* The bishop has captured the rook on h8 and Black's kingside right is still
\* true.
C7_Witness ==
    /\ ply = 1 /\ moved = << <<6, 1>>, <<0, 7>> >>
    /\ board[0][7] = "B"
    /\ castling_rights["black"][0] /\ castling_rights["black"][1]

\* The en-passant captures the side to move can try: a pawn of its own one
\* step diagonally behind the (empty) target.
C8_EnPassantCaptures ==
    IF en_passant_target = None
       \/ board[en_passant_target[1]][en_passant_target[2]] # "."
    THEN {}
    ELSE {<<s, en_passant_target>> :
            s \in {t \in Squares :
                      /\ t[1] = en_passant_target[1] + (IF turn_white THEN 1 ELSE -1)
                      /\ Abs(t[2] - en_passant_target[2]) = 1
                      /\ board[t[1]][t[2]] = PawnOf(ToMove)}}

\* The board an en-passant capture from s to e must leave: the origin and the
\* square beside it in the column of e empty, the pawn on e, nothing else
\* changed.
C8_BoardAfter(b, s, e) ==
    [r \in Rows |-> [c \in Rows |->
        IF <<r, c>> = e THEN b[s[1]][s[2]]
        ELSE IF <<r, c>> = s \/ <<r, c>> = <<s[1], e[2]>> THEN "."
        ELSE b[r][c]]]

\* C8 as claimed: every en-passant capture is accepted and has that effect.
C8_AlwaysAccepted ==
    pc = "awaiting" =>
        \A m \in C8_EnPassantCaptures :
            LET res == main_iteration(Game, TextOf(m[1], m[2]), NoAnswer, NoAnswer)
            IN  /\ res.printed = << >>
                /\ res.state.board = C8_BoardAfter(board, m[1], m[2])

\* C8 as amended: an en-passant capture is accepted exactly when it does not
\* leave the mover's own king attacked; when accepted it removes the enemy
\* pawn beside the origin (row of from, column of to), puts the capturing pawn
\* on the target, empties the origin and changes no other square; when refused
\* it changes nothing.
C8_EnPassantCapture ==
    pc = "awaiting" =>
        \A m \in C8_EnPassantCaptures :
            LET res == main_iteration(Game, TextOf(m[1], m[2]), NoAnswer, NoAnswer)
                after == C8_BoardAfter(board, m[1], m[2])
            IN  /\ board[m[1][1]][m[2][2]] = PawnOf(Other(ToMove))
                /\ (res.printed = << >>) <=> ~KingAttacked(after, ToMove)
                /\ res.printed = << >> =>
                      /\ res.state.board = after
                      /\ res.state.turn_white = ~turn_white
                /\ res.printed # << >> => res.state = Game

\* "e5 d6" was accepted after Black's d7-d5: d5 is empty, the pawn is on d6.
C8_Witness ==
    /\ ply = 1 /\ moved = << <<3, 4>>, <<2, 3>> >>
    /\ board[2][3] = "P" /\ board[3][3] = "." /\ board[3][4] = "."
    /\ board[1][3] = "." /\ ~turn_white

\* C9: the side to move flips exactly when a move text passes both gates, and
\* then the move is committed in the same step; a refused text leaves the
\* same side at the prompt; only 'quit' ends the loop, and at the prompt a
\* move text can always be handled, also when no move is legal.
C9_Gates(start, end) ==
    /\ is_valid_move(board, start, end, turn_white, en_passant_target, TRUE)
    /\ \A choice \in PromptAnswers(board, start, end) :
          ~in_check(move_with_extras(board, start, end, turn_white,
                                     en_passant_target, castling_rights,
                                     choice).board, ToMove)

C9_Committed(start, end) ==
    \E choice \in PromptAnswers(board, start, end) :
        LET real == move_with_extras(board, start, end, turn_white,
                                     en_passant_target, castling_rights, choice)
        IN  /\ board' = real.board
            /\ en_passant_target' = real.en_passant
            /\ castling_rights' = real.rights

C9_Step ==
    /\ turn_white' # turn_white =>
          /\ ~Rejected(output') /\ pc' = "awaiting"
          /\ C9_Gates(moved'[1], moved'[2])
          /\ C9_Committed(moved'[1], moved'[2])
    /\ (pc' = "awaiting" /\ ~Rejected(output')) => turn_white' # turn_white
    /\ Rejected(output') => pc' = "awaiting" /\ turn_white' = turn_white
    /\ (board' # board \/ en_passant_target' # en_passant_target
        \/ castling_rights' # castling_rights) => turn_white' # turn_white
    /\ pc' = "exited" => output' = <<MsgGoodbye>>

C9_TurnFlipsOnCommitOnly ==
    /\ [][C9_Step]_vars
    /\ []((pc = "awaiting" /\ ply < MaxPly /\ texts < MaxTexts) => ENABLED Move)

\* White is mated, has tried a move, was refused and is asked again.
C9_Witness ==
    /\ pc = "awaiting" /\ turn_white /\ board[4][7] = "q"
    /\ output = <<MsgIllegal, "White is in check!">>

\* C10: for a rook, bishop or queen, a destination is geometry-legal iff it
\* lies on one of the piece's lines, every square strictly between is empty
\* and the destination holds no piece of the mover's colour.
C10_SlidingLegality ==
    (pc = "returned" /\ call[1] = "is_valid_move") =>
        LET s == call[2]
            e == call[3]
            x == board[s[1]][s[2]]
            reach == CASE x \in {"R", "r"} -> OnRow(s, e)
                       [] x \in {"B", "b"} -> OnDiagonal(s, e)
                       [] x \in {"Q", "q"} -> OnRow(s, e) \/ OnDiagonal(s, e)
        IN  ret = (/\ reach
                   /\ ClearBetween(board, s, e)
                   /\ ColorOf(board[e[1]][e[2]]) # ColorOf(x))

\* A slider was found to capture the enemy piece that is the first on its line,
\* two or more squares away.
C10_Witness ==
    /\ pc = "returned" /\ call[1] = "is_valid_move" /\ ret = TRUE
    /\ board[call[3][1]][call[3][2]] # "."
    /\ Between(call[2], call[3]) # {}

\* The board with the king of the colour taken from s and put on t.
KingStepped(b, color, s, t) ==
    [b EXCEPT ![s[1]][s[2]] = ".", ![t[1]][t[2]] = KingOf(color)]

\* C11: can_castle returns true only if the right for the side is true, the
\* colour's king is on its home square, the corner of the side holds a rook of
\* the colour, every square strictly between king and rook is empty, and the
\* king would be attacked neither on the square it passes over nor on the
\* square it arrives at.
C11_CastleConditions ==
    (pc = "returned" /\ call[1] = "can_castle" /\ ret = TRUE) =>
        LET color == call[2]
            side == call[3]
            rights == call[4]
            row == IF color = "white" THEN 7 ELSE 0
            home == <<row, 4>>
            corner == <<row, IF side = "king" THEN 7 ELSE 0>>
            path == IF side = "king" THEN {<<row, 5>>, <<row, 6>>}
                    ELSE {<<row, 3>>, <<row, 2>>}
        IN  /\ rights[IF side = "king" THEN 0 ELSE 1]
            /\ board[row][4] = KingOf(color)
            /\ board[corner[1]][corner[2]] = (IF color = "white" THEN "R" ELSE "r")
            /\ ClearBetween(board, home, corner)
            /\ \A t \in path :
                  /\ ~SquareAttacked(board, t, Other(color))
                  /\ ~SquareAttacked(KingStepped(board, color, home, t), t,
                                     Other(color))

\* can_castle returned true for the queenside with an enemy piece on the board
\* that attacks none of the king's squares.
C11_Witness ==
    /\ pc = "returned" /\ call[1] = "can_castle" /\ ret = TRUE
    /\ call[3] = "queen" /\ call[2] = "white"
    /\ \E s \in Squares : board[s[1]][s[2]] = "n"

\* C12: move_with_extras, applied to a king on its home square with the g-file
\* (c-file) square of the home row as destination while can_castle holds for
\* that side, castles: the king ends on g (c), the rook on f (d), the king's
\* and the rook's origin squares are empty, no other square changes, both
\* rights of the mover's colour become false and the returned en-passant
\* target is None.
C12_Castles(b, start, end, cr) ==
    LET color == ColorOf(b[start[1]][start[2]])
        row == IF color = "white" THEN 7 ELSE 0
    IN  /\ b[start[1]][start[2]] \in {"K", "k"}
        /\ start = <<row, 4>>
        /\ \/ end = <<row, 6>> /\ can_castle(b, color, "king", cr[color])
           \/ end = <<row, 2>> /\ can_castle(b, color, "queen", cr[color])

C12_BoardAfter(b, start, end) ==
    LET color == ColorOf(b[start[1]][start[2]])
        row == start[1]
        kingside == end[2] = 6
        corner == IF kingside THEN 7 ELSE 0
        rook_to == IF kingside THEN 5 ELSE 3
    IN  [r \in Rows |-> [c \in Rows |->
            IF r # row THEN b[r][c]
            ELSE IF c = end[2] THEN KingOf(color)
            ELSE IF c = rook_to THEN (IF color = "white" THEN "R" ELSE "r")
            ELSE IF c = 4 \/ c = corner THEN "."
            ELSE b[r][c]]]

C12_CastleEffect ==
    (pc = "returned" /\ call[1] = "move_with_extras"
     /\ C12_Castles(call[2], call[3], call[4], call[7])) =>
        LET b == call[2]
            color == ColorOf(b[call[3][1]][call[3][2]])
        IN  /\ board = C12_BoardAfter(b, call[3], call[4])
            /\ castling_rights[color] = [i \in 0..1 |-> FALSE]
            /\ castling_rights[Other(color)] = call[7][Other(color)]
            /\ ret = <<None, castling_rights>>

\* Black has castled queenside in a call that was given an en-passant target
\* and both of White's rights.
C12_Witness ==
    /\ pc = "returned" /\ call[1] = "move_with_extras"
    /\ C12_Castles(call[2], call[3], call[4], call[7])
    /\ call[3] = <<0, 4>> /\ call[4] = <<0, 2>> /\ call[6] # None
    /\ board[0][2] = "k" /\ board[0][3] = "r" /\ board[0][0] = "."
    /\ castling_rights["white"][0] /\ castling_rights["white"][1]

\* C13: in_check returns false (and returns) on every board that holds no king
\* of the given colour, whatever else is on the board.
C13_NoKingNoCheck ==
    (pc = "returned" /\ call[1] = "in_check"
     /\ \A s \in Squares : board[s[1]][s[2]] # KingOf(call[2])) =>
        ret = FALSE

\* in_check returned for White on the board of the mate by the queen on h4
\* with the white king taken away.
C13_Witness ==
    /\ pc = "returned" /\ call = <<"in_check", "white">> /\ ret = FALSE
    /\ board[4][7] = "q" /\ board[7][4] = "." /\ board[6][5] = "."
    /\ \A s \in Squares : board[s[1]][s[2]] # "K"

\* C14: a pawn move is geometry-legal iff it is (i) one step straight forward
\* onto an empty square, (ii) two steps straight forward from the colour's
\* home rank with the passed and the destination square empty, (iii) one step
\* diagonally forward onto an enemy piece, or (iv) one step diagonally forward
\* onto the en-passant target while that square is empty.
C14_PawnRule(b, s, e, ep) ==
    LET white == b[s[1]][s[2]] = "P"
        fwd == IF white THEN -1 ELSE 1
        home == IF white THEN 6 ELSE 1
        foe == IF white THEN BlackPieces ELSE WhitePieces
        diagonal == e[1] = s[1] + fwd /\ Abs(e[2] - s[2]) = 1
    IN  \/ e = <<s[1] + fwd, s[2]>> /\ b[e[1]][e[2]] = "."
        \/ /\ s[1] = home /\ e = <<s[1] + 2 * fwd, s[2]>>
           /\ b[s[1] + fwd][s[2]] = "." /\ b[e[1]][e[2]] = "."
        \/ diagonal /\ b[e[1]][e[2]] \in foe
        \/ diagonal /\ e = ep /\ b[e[1]][e[2]] = "."

C14_PawnLegality ==
    (pc = "returned" /\ call[1] = "is_valid_move"
     /\ board[call[2][1]][call[2][2]] \in {"P", "p"}) =>
        ret = C14_PawnRule(board, call[2], call[3], call[4])

\* A black pawn on its home rank was refused the double step because the
\* square it passes over is occupied.
C14_Witness ==
    /\ pc = "returned" /\ call[1] = "is_valid_move" /\ ret = FALSE
    /\ call[2][1] = 1 /\ board[1][call[2][2]] = "p"
    /\ call[3] = <<3, call[2][2]>>
    /\ board[2][call[2][2]] # "." /\ board[3][call[2][2]] = "."

\* The eight symmetries of the board: the four rotations and the four
\* reflections.
BoardSymmetry(k, s) ==
    CASE k = 0 -> s
      [] k = 1 -> <<s[2], 7 - s[1]>>
      [] k = 2 -> <<7 - s[1], 7 - s[2]>>
      [] k = 3 -> <<7 - s[2], s[1]>>
      [] k = 4 -> <<7 - s[1], s[2]>>
      [] k = 5 -> <<s[1], 7 - s[2]>>
      [] k = 6 -> <<s[2], s[1]>>
      [] k = 7 -> <<7 - s[2], 7 - s[1]>>

Elements(seq) == {seq[i] : i \in 1..Len(seq)}

\* C15: the knight and king sets of every square hold only squares of the
\* board, the set of the image of a square under a board symmetry is the
\* image of the square's set, and t is in the set of s iff s is in the set
\* of t.
C15_TablesSymmetric ==
    (pc = "returned" /\ call[1] \in {"KNIGHT_MOVES", "KING_MOVES"}) =>
        LET table == IF call[1] = "KNIGHT_MOVES" THEN KNIGHT_MOVES
                     ELSE KING_MOVES
            s == call[2]
        IN  /\ \A t \in Elements(ret) :
                  t[1] \in 0..7 /\ t[2] \in 0..7
            /\ \A k \in 0..7 :
                  Elements(table[BoardSymmetry(k, s)]) =
                      {BoardSymmetry(k, t) : t \in Elements(ret)}
            /\ \A t \in Squares :
                  (t \in Elements(ret)) <=> (s \in Elements(table[t]))

\* The knight set of the corner a8 was read: its two squares.
C15_Witness ==
    /\ pc = "returned" /\ call = <<"KNIGHT_MOVES", <<0, 0>> >>
    /\ Elements(ret) = {<<1, 2>>, <<2, 1>>}

\* C16: the second gate of the main loop is redundant: at the prompt, every
\* move is_valid_move accepts with check-safety leaves the mover's king out of
\* check on the scratch copy move_with_extras is applied to, whatever the
\* promotion choice; so the main loop never prints the refusal of its second
\* gate.
C16_SecondGatePasses ==
    \A start \in Squares, end \in Squares :
        is_valid_move(board, start, end, turn_white, en_passant_target, TRUE) =>
            \A choice \in PromptAnswers(board, start, end) :
                ~in_check(move_with_extras(board, start, end, turn_white,
                                           en_passant_target, castling_rights,
                                           choice).board, ToMove)

C16_SecondGateRedundant ==
    /\ \A i \in 1..Len(output) : output[i] # MsgSelfCheck
    /\ (pc = "awaiting" /\ ply < MaxPly /\ texts < MaxTexts) =>
          C16_SecondGatePasses

\* The pawn on h7 has captured on g8 and become a knight: both gates passed
\* for a promotion.
C16_Witness ==
    /\ pc = "awaiting" /\ ply = 1 /\ moved = << <<1, 7>>, <<0, 6>> >>
    /\ board[0][6] = "N" /\ board[1][7] = "." /\ ~turn_white
    /\ output = << >>

\* C17: handling one move text that is accepted and brings a pawn to the
\* farthest rank of its colour calls promotion_choice twice (for the scratch
\* copy, then for the authoritative board), and the piece left on the
\* authoritative board is the one the second call returned; handling a text
\* is_valid_move refuses calls it zero times.
C17_Step ==
    LET start == moved'[1]
        end == moved'[2]
        arrives == /\ board[start[1]][start[2]] = PawnOf(ToMove)
                   /\ end[1] = (IF turn_white THEN 0 ELSE 7)
        pieces == IF turn_white THEN {"Q", "R", "B", "N"}
                  ELSE {"q", "r", "b", "n"}
    IN  /\ (turn_white' # turn_white /\ arrives) =>
              /\ Len(prompted') = 2
              /\ prompted'[1] \in pieces /\ prompted'[2] \in pieces
              /\ board'[end[1]][end[2]] = prompted'[2]
        /\ (Len(output') > 0 /\ output'[1] = MsgIllegal) => prompted' = << >>

C17_PromptedTwice == [][C17_Step]_vars

\* The white pawn has captured on g8; the first prompt was answered with a
\* queen, the second with a knight, and a knight stands on g8.
C17_Witness ==
    /\ pc = "awaiting" /\ ply = 1 /\ moved = << <<1, 7>>, <<0, 6>> >>
    /\ prompted = <<"Q", "N">> /\ board[0][6] = "N" /\ ~turn_white

\* C18: legality checking and check detection terminate: in_check calls
\* is_valid_move only in geometry-only mode, geometry-only is_valid_move never
\* calls in_check, the deepest chain of active calls is is_valid_move (full
\* safety) -> in_check -> is_valid_move (geometry-only), in_check is never
\* active twice, and every call returns.
C18_ChainShape ==
    /\ Len(stack) <= 3
    /\ Cardinality({i \in 1..Len(stack) : stack[i].fn = "in_check"}) <= 1
    /\ \A i \in 1..Len(stack) :
          /\ (stack[i].fn = "is_valid_move" /\ i > 1) =>
                (stack[i - 1].fn = "in_check" /\ stack[i].args[5] = FALSE)
          /\ (stack[i].fn = "in_check" /\ i > 1) =>
                (stack[i - 1].fn = "is_valid_move" /\ stack[i - 1].args[5] = TRUE)

C18_Terminates ==
    /\ []C18_ChainShape
    /\ <>(pc = "returned" /\ stack = << >>)

\* The chain is_valid_move (full safety) -> in_check -> is_valid_move
\* (geometry-only) is active.
C18_Witness ==
    /\ pc = "calling" /\ Len(stack) = 3
    /\ stack[1].fn = "is_valid_move" /\ stack[1].args[5] = TRUE
    /\ stack[2].fn = "in_check"
    /\ stack[3].fn = "is_valid_move" /\ stack[3].args[5] = FALSE

\* C19: in every state the main loop reaches, whatever texts were accepted or
\* refused and whatever the promotion answers, the authoritative board holds
\* exactly one white and exactly one black king.
C19_OneKingEach ==
    (pc \in {"awaiting", "exited"}) =>
        /\ Cardinality({s \in Squares : board[s[1]][s[2]] = "K"}) = 1
        /\ Cardinality({s \in Squares : board[s[1]][s[2]] = "k"}) = 1

\* The bishop has captured on f7 next to the black king and gives check; both
\* kings are on the board.
C19_Witness ==
    /\ pc = "awaiting" /\ ply = 1 /\ moved = << <<4, 2>>, <<1, 5>> >>
    /\ board[1][5] = "B" /\ board[0][4] = "k" /\ board[7][4] = "K"
    /\ output = <<"Black is in check!">>

\* C20: at every turn boundary a set en-passant target (r, c) is an empty
\* square, and either r = 5, Black is to move and a white pawn stands on
\* (4, c), or r = 2, White is to move and a black pawn stands on (3, c); so
\* every accepted en-passant capture (a pawn going diagonally to an empty
\* square) removes an enemy pawn.
C20_TargetBehindPawn ==
    (pc \in {"awaiting", "exited"} /\ en_passant_target # None) =>
        LET r == en_passant_target[1]
            c == en_passant_target[2]
        IN  /\ board[r][c] = "."
            /\ \/ r = 5 /\ ~turn_white /\ board[4][c] = "P"
               \/ r = 2 /\ turn_white /\ board[3][c] = "p"

C20_CaptureStep ==
    LET s == moved'[1]
        e == moved'[2]
    IN  (/\ turn_white' # turn_white
         /\ board[s[1]][s[2]] = PawnOf(ToMove)
         /\ s[2] # e[2]
         /\ board[e[1]][e[2]] = ".") =>
            /\ e = en_passant_target
            /\ board[s[1]][e[2]] = PawnOf(Other(ToMove))
            /\ board'[s[1]][e[2]] = "."

C20_TargetInvariant ==
    /\ []C20_TargetBehindPawn
    /\ [][C20_CaptureStep]_vars

\* After "e2 e4", Black has answered "d7 d5": the target is d6, White is to
\* move and the black pawn stands on d5.
C20_Witness ==
    /\ pc = "awaiting" /\ ply = 1 /\ moved = << <<1, 3>>, <<3, 3>> >>
    /\ en_passant_target = <<2, 3>> /\ turn_white
    /\ board[3][3] = "p" /\ board[2][3] = "." /\ board[4][4] = "P"
    /\ board[6][0] = "P"

====
